---------------------------- MODULE Spec2Model ----------------------------
(***************************************************************************)
(* A model of the company-search servers of this repository: the record    *)
(* store loaded from a CSV file at start-up, the filter evaluators         *)
(* (applyFilters, in its two variants), the normalizer (fillMissingFields) *)
(* and the search and lookup handlers of every server file.                *)
(*                                                                         *)
(* JavaScript strings are sequences of one-character strings, so that      *)
(* toLowerCase, includes, trim and Number are computed, not assumed.       *)
(* JavaScript values are tagged records (see Str, Num, Undefined, ...).    *)
(***************************************************************************)
EXTENDS Integers, Sequences, FiniteSets, TLC

(***************************************************************************)
(* Bounds of the model.                                                    *)
(***************************************************************************)
\* the longest store (number of CSV rows) the model loads
MaxRows == 2
\* the longest filter list handed to applyFilters in SpecEval
MaxFilters == 2

(***************************************************************************)
(* JavaScript values.                                                      *)
(***************************************************************************)
Undefined == [t |-> "undefined"]
Null == [t |-> "null"]
\* a built-in function object, such as Object.prototype.constructor
Function == [t |-> "function"]
\* an array, as a query string that repeats a parameter parses to
ArrayValue == [t |-> "array"]
Str(s) == [t |-> "string", s |-> s]
Num(n) == [t |-> "number", nan |-> FALSE, n |-> n]
NaN == [t |-> "number", nan |-> TRUE, n |-> 0]

(***************************************************************************)
(* Characters: the UTF-16 code unit of each character the model uses, and  *)
(* the lower-case counterpart of the upper-case letters among them.        *)
(***************************************************************************)
CharCode ==
  (" " :> 32) @@ ("/" :> 47) @@ ("0" :> 48) @@ ("1" :> 49) @@ ("5" :> 53) @@
  ("7" :> 55) @@ ("A" :> 65) @@ ("C" :> 67) @@ ("E" :> 69) @@ ("G" :> 71) @@ ("I" :> 73) @@ ("K" :> 75) @@
  ("M" :> 77) @@ ("S" :> 83) @@ ("U" :> 85) @@ ("_" :> 95) @@ ("a" :> 97) @@ ("b" :> 98) @@
  ("c" :> 99) @@ ("d" :> 100) @@ ("e" :> 101) @@ ("f" :> 102) @@
  ("g" :> 103) @@ ("i" :> 105) @@ ("k" :> 107) @@ ("l" :> 108) @@
  ("m" :> 109) @@ ("n" :> 110) @@ ("o" :> 111) @@ ("s" :> 115) @@
  ("t" :> 116) @@ ("u" :> 117) @@ ("x" :> 120)

UpperToLower ==
  ("A" :> "a") @@ ("C" :> "c") @@ ("E" :> "e") @@ ("G" :> "g") @@ ("I" :> "i") @@ ("K" :> "k") @@
  ("M" :> "m") @@ ("S" :> "s") @@ ("U" :> "u")

DigitValue ==
  ("0" :> 0) @@ ("1" :> 1) @@ ("5" :> 5) @@ ("7" :> 7)

\* String.prototype.toLowerCase
toLowerCase(s) ==
  [i \in 1..Len(s) |->
     IF s[i] \in DOMAIN UpperToLower THEN UpperToLower[s[i]] ELSE s[i]]

\* String.prototype.includes
includes(s, sub) ==
  \E i \in 0..(Len(s) - Len(sub)) : SubSeq(s, i + 1, i + Len(sub)) = sub

RECURSIVE trimStart(_)
trimStart(s) ==
  IF s # <<>> /\ Head(s) = " " THEN trimStart(Tail(s)) ELSE s

RECURSIVE trimEnd(_)
trimEnd(s) ==
  IF s # <<>> /\ s[Len(s)] = " " THEN trimEnd(SubSeq(s, 1, Len(s) - 1)) ELSE s

\* String.prototype.trim
trim(s) == trimEnd(trimStart(s))

RECURSIVE DecimalValue(_)
DecimalValue(s) ==
  IF s = <<>> THEN 0
  ELSE 10 * DecimalValue(SubSeq(s, 1, Len(s) - 1)) + DigitValue[s[Len(s)]]

\* StringToNumber: white space is trimmed, the empty string is 0, a run of
\* decimal digits is its value, any other text of the model's alphabet is NaN
StringToNumber(s) ==
  LET body == trim(s) IN
    IF body = <<>> THEN Num(0)
    ELSE IF \A i \in 1..Len(body) : body[i] \in DOMAIN DigitValue
         THEN Num(DecimalValue(body))
         ELSE NaN

\* Number(v)
Number(v) ==
  CASE v.t = "string" -> StringToNumber(v.s)
    [] v.t = "number" -> v
    [] v.t = "null" -> Num(0)
    [] OTHER -> NaN

\* the global isNaN(v)
isNaN(v) == Number(v).nan

DigitChar == <<"0", "1", "2", "3", "4", "5", "6", "7", "8", "9">>

RECURSIVE NatToString(_)
NatToString(n) ==
  IF n < 10 THEN <<DigitChar[n + 1]>>
  ELSE NatToString(n \div 10) \o <<DigitChar[(n % 10) + 1]>>

\* the source text a built-in function converts to
FunctionSource ==
  <<"f", "u", "n", "c", "t", "i", "o", "n", " ", "O", "b", "j", "e", "c", "t",
    "(", ")", " ", "{", " ", "[", "n", "a", "t", "i", "v", "e", " ", "c", "o",
    "d", "e", "]", " ", "}">>

\* String(v)
String(v) ==
  CASE v.t = "string" -> v.s
    [] v.t = "number" ->
         IF v.nan THEN <<"N", "a", "N">>
         ELSE IF v.n < 0 THEN <<"-">> \o NatToString(-v.n)
         ELSE NatToString(v.n)
    [] v.t = "undefined" -> <<"u", "n", "d", "e", "f", "i", "n", "e", "d">>
    [] v.t = "null" -> <<"n", "u", "l", "l">>
    [] OTHER -> FunctionSource

\* ToBoolean(v), as the ! operator and || apply it
Truthy(v) ==
  CASE v.t = "string" -> v.s # <<>>
    [] v.t = "number" -> ~v.nan /\ v.n # 0
    [] v.t \in {"function", "array"} -> TRUE
    [] OTHER -> FALSE

\* a == b for numbers: NaN equals nothing
NumEq(a, b) == ~a.nan /\ ~b.nan /\ a.n = b.n
\* a < b for numbers: false when either is NaN
NumLt(a, b) == ~a.nan /\ ~b.nan /\ a.n < b.n
\* a <= b for numbers: false when either is NaN
NumLe(a, b) == ~a.nan /\ ~b.nan /\ a.n <= b.n

\* a == b (IsLooselyEqual)
LooseEq(a, b) ==
  CASE a.t = "string" /\ b.t = "string" -> a.s = b.s
    [] a.t = "number" /\ b.t = "number" -> NumEq(a, b)
    [] a.t = "string" /\ b.t = "number" -> NumEq(StringToNumber(a.s), b)
    [] a.t = "number" /\ b.t = "string" -> NumEq(a, StringToNumber(b.s))
    [] a.t \in {"undefined", "null"} -> b.t \in {"undefined", "null"}
    [] a.t = "function" /\ b.t = "string" -> FunctionSource = b.s
    [] a.t = "function" /\ b.t = "number" ->
         NumEq(StringToNumber(FunctionSource), b)
    [] a.t = "function" /\ b.t = "function" -> TRUE
    [] OTHER -> FALSE

(***************************************************************************)
(* Records.  A row of the store is the object csv-parser builds for one    *)
(* line of the file: a plain object whose own keys are the columns the     *)
(* line has a cell for, each holding the cell's text.  A line with fewer   *)
(* cells than the header has fewer keys.  Being a plain object, a row      *)
(* inherits the members of Object.prototype.                               *)
(***************************************************************************)
\* members of Object.prototype the model names (all of them functions)
ProtoKeys == {"constructor", "toString"}

\* key in row
HasProperty(row, key) == key \in DOMAIN row \/ key \in ProtoKeys

\* Object.prototype.hasOwnProperty.call(row, key)
hasOwnProperty(row, key) == key \in DOMAIN row

\* row[key]
Get(row, key) ==
  IF key \in DOMAIN row THEN Str(row[key])
  ELSE IF key \in ProtoKeys THEN Function
  ELSE Undefined

\* the outcome of a call: a returned value, or a thrown TypeError
Returned(v) == [threw |-> FALSE, ret |-> v]
Thrown == [threw |-> TRUE, ret |-> FALSE]

(***************************************************************************)
(* A filter condition is the object {field, op, value} of the request.     *)
(* field is the property key f.field converts to and op the string f.op;   *)
(* both are "undefined" when the object has no such member (the key        *)
(* undefined converts to, and a value no case label equals).  value is a   *)
(* JavaScript value, Undefined when the member is missing.  An element of  *)
(* the filters array may also be null.                                     *)
(***************************************************************************)
Cond(field, op, value) ==
  [t |-> "object", field |-> field, op |-> op, value |-> value]

\* One iteration of the loop of applyFilters (the `in` / != variant):
\* "continue" (next condition), "false" (return false) or "throw".
ConditionStep(row, f) ==
  IF f.t # "object" THEN "throw"
  ELSE IF ~HasProperty(row, f.field) THEN "continue"
  ELSE
    LET actual == Get(row, f.field)
        value == f.value
    IN CASE f.op = "eq" ->
              IF ~LooseEq(actual, value) THEN "false" ELSE "continue"
         [] f.op = "contains" ->
              IF ~Truthy(actual) THEN "false"
              ELSE IF actual.t # "string" THEN "throw"
              ELSE IF ~includes(toLowerCase(actual.s),
                                toLowerCase(String(value)))
                   THEN "false"
                   ELSE "continue"
         [] f.op = "gt" ->
              IF isNaN(actual) \/ NumLe(Number(actual), Number(value))
              THEN "false" ELSE "continue"
         [] f.op = "lt" ->
              IF isNaN(actual) \/ NumLe(Number(value), Number(actual))
              THEN "false" ELSE "continue"
         [] OTHER -> "continue"

\* the loop accepting the row at the first condition that holds
RECURSIVE FilterLoopAny(_, _, _)
FilterLoopAny(row, filters, i) ==
  IF i > Len(filters) THEN Returned(Len(filters) = 0)
  ELSE LET step == ConditionStep(row, filters[i])
       IN CASE step = "throw" -> Thrown
            [] step = "false" -> FilterLoopAny(row, filters, i + 1)
            [] OTHER -> Returned(TRUE)

RECURSIVE FilterLoop(_, _, _)
FilterLoop(row, filters, i) ==
  IF i > Len(filters) THEN Returned(TRUE)
  ELSE LET step == ConditionStep(row, filters[i])
       IN CASE step = "throw" -> Thrown
            [] step = "false" -> Returned(FALSE)
            [] OTHER -> FilterLoop(row, filters, i + 1)

\* applyFilters(row, filters) of index.js, part_000, part_001 and the first
\* server of part_002
applyFilters(row, filters) == FilterLoop(row, filters, 1)

\* the iteration with a non-numeric gt/lt rejecting the row
ConditionStepMcpStrict(row, f) ==
  IF f.t # "object" THEN "throw"
  ELSE IF ~hasOwnProperty(row, f.field) THEN "continue"
  ELSE
    LET actual == Get(row, f.field)
        value == f.value
        numActual == Number(actual)
        numValue == Number(value)
    IN IF f.op = "eq"
       THEN IF String(actual) # String(value) THEN "false" ELSE "continue"
       ELSE IF f.op = "contains"
       THEN IF ~includes(toLowerCase(String(actual)),
                         toLowerCase(String(value)))
            THEN "false" ELSE "continue"
       ELSE IF f.op \in {"gt", "lt"}
       THEN IF numActual.nan \/ numValue.nan THEN "false"
            ELSE IF f.op = "gt" /\ ~NumLt(numValue, numActual) THEN "false"
            ELSE IF f.op = "lt" /\ ~NumLt(numActual, numValue) THEN "false"
            ELSE "continue"
       ELSE "continue"

\* One iteration of the loop of applyFilters of the /mcp server of part_002
\* (hasOwnProperty, String() comparison, non-numeric gt/lt ignored).
ConditionStepMcp(row, f) ==
  IF f.t # "object" THEN "throw"
  ELSE IF ~hasOwnProperty(row, f.field) THEN "continue"
  ELSE
    LET actual == Get(row, f.field)
        value == f.value
        numActual == Number(actual)
        numValue == Number(value)
    IN IF f.op = "eq"
       THEN IF String(actual) # String(value) THEN "false" ELSE "continue"
       ELSE IF f.op = "contains"
       THEN IF ~includes(toLowerCase(String(actual)),
                         toLowerCase(String(value)))
            THEN "false" ELSE "continue"
       ELSE IF f.op \in {"gt", "lt"}
       THEN IF numActual.nan \/ numValue.nan THEN "continue"
            ELSE IF f.op = "gt" /\ ~NumLt(numValue, numActual) THEN "false"
            ELSE IF f.op = "lt" /\ ~NumLt(numActual, numValue) THEN "false"
            ELSE "continue"
       ELSE "continue"

RECURSIVE FilterLoopMcp(_, _, _)
FilterLoopMcp(row, filters, i) ==
  IF i > Len(filters) THEN Returned(TRUE)
  ELSE LET step == ConditionStepMcp(row, filters[i])
       IN CASE step = "throw" -> Thrown
            [] step = "false" -> Returned(FALSE)
            [] OTHER -> FilterLoopMcp(row, filters, i + 1)

\* applyFilters(row, filters) of the /mcp server of part_002
applyFiltersMcp(row, filters) ==
  IF Len(filters) = 0 THEN Returned(TRUE) ELSE FilterLoopMcp(row, filters, 1)

\* the test written !row[key]: every falsy value, 0 included
FillValueFalsy(v) ==
  IF ~Truthy(v) THEN Str(<<"n", "o", "_", "d", "a", "t", "a">>) ELSE v

\* the empty string blanked to null instead of replaced
FillValueBlank(v) ==
  IF v.t = "string" /\ v.s = <<>> THEN Null
  ELSE IF v.t \in {"undefined", "null"}
       THEN Str(<<"n", "o", "_", "d", "a", "t", "a">>)
       ELSE v

\* row[key] === "" || row[key] === undefined || row[key] === null
\*   ? "no_data" : row[key]
FillValue(v) ==
  IF \/ (v.t = "string" /\ v.s = <<>>)
     \/ v.t = "undefined"
     \/ v.t = "null"
  THEN Str(<<"n", "o", "_", "d", "a", "t", "a">>)
  ELSE v

\* fillMissingFields(row) for an object holding any values: a new object
\* with the object's own keys
fillMissingFieldsObject(obj) == [key \in DOMAIN obj |-> FillValue(obj[key])]

\* fillMissingFields(row) for a row of the store, whose values are strings
fillMissingFields(row) ==
  [key \in DOMAIN row |-> FillValue(Str(row[key])).s]

(***************************************************************************)
(* Arrays: slice and sort.                                                 *)
(***************************************************************************)
Min(a, b) == IF a < b THEN a ELSE b
Max(a, b) == IF a > b THEN a ELSE b

\* the index a relative start or end of slice denotes in an array of len
RelativeIndex(k, len) == IF k < 0 THEN Max(len + k, 0) ELSE Min(k, len)

\* slice with the end taken inclusively (an off-by-one)
SliceInclusive(items, start, end) ==
  LET from == RelativeIndex(start, Len(items))
      to == Min(RelativeIndex(end, Len(items)) + 1, Len(items))
  IN SubSeq(items, from + 1, to)

\* Array.prototype.slice(start, end) for integer start and end
Slice(items, start, end) ==
  LET from == RelativeIndex(start, Len(items))
      to == RelativeIndex(end, Len(items))
  IN SubSeq(items, from + 1, to)

RECURSIVE StrLt(_, _)
\* a < b for strings: by code units
StrLt(a, b) ==
  IF b = <<>> THEN FALSE
  ELSE IF a = <<>> THEN TRUE
  ELSE IF CharCode[Head(a)] # CharCode[Head(b)]
       THEN CharCode[Head(a)] < CharCode[Head(b)]
       ELSE StrLt(Tail(a), Tail(b))

\* ToPrimitive(v): a function converts to its source text
ToPrimitive(v) == IF v.t = "function" THEN Str(FunctionSource) ELSE v

\* a < b (IsLessThan): two strings by code units, anything else as numbers
JsLt(a, b) ==
  LET pa == ToPrimitive(a)
      pb == ToPrimitive(b)
  IN IF pa.t = "string" /\ pb.t = "string" THEN StrLt(pa.s, pb.s)
     ELSE NumLt(Number(pa), Number(pb))

\* maybeNumber(v): Number(v) when it is finite, else v
maybeNumber(v) == IF Number(v).nan THEN v ELSE Number(v)

\* the comparator handed to matched.sort: -1, 0 or 1
SortCompare(a, b, sort) ==
  LET A == maybeNumber(Get(a, sort.field))
      B == maybeNumber(Get(b, sort.field))
  IN IF JsLt(A, B) THEN (IF sort.dir = "desc" THEN 1 ELSE -1)
     ELSE IF JsLt(B, A) THEN (IF sort.dir = "desc" THEN -1 ELSE 1)
     ELSE 0

\* whether the comparator is a consistent comparator for these values
\* (ECMAScript, Array.prototype.sort): otherwise the order is
\* implementation-defined
ConsistentComparator(items, sort) ==
  LET S == {items[i] : i \in DOMAIN items}
      c(a, b) == SortCompare(a, b, sort)
  IN /\ \A a \in S : c(a, a) = 0
     /\ \A a, b \in S : (c(a, b) = 0) => (c(b, a) = 0)
     /\ \A a, b, d \in S :
          /\ (c(a, b) = 0 /\ c(b, d) = 0) => (c(a, d) = 0)
          /\ (c(a, b) < 0 /\ c(b, d) < 0) => (c(a, d) < 0)
          /\ (c(a, b) > 0 /\ c(b, d) > 0) => (c(a, d) > 0)

RECURSIVE InsertStable(_, _, _)
\* x put into the sorted sequence after every element it does not precede
InsertStable(sorted, x, sort) ==
  IF sorted = <<>> THEN <<x>>
  ELSE IF SortCompare(x, Head(sorted), sort) < 0 THEN <<x>> \o sorted
  ELSE <<Head(sorted)>> \o InsertStable(Tail(sorted), x, sort)

RECURSIVE StableSort(_, _)
StableSort(items, sort) ==
  IF items = <<>> THEN <<>>
  ELSE InsertStable(StableSort(SubSeq(items, 1, Len(items) - 1), sort),
                    items[Len(items)], sort)

\* every reordering of a sequence
Reorderings(items) ==
  LET n == Len(items)
      perms == {p \in [1..n -> 1..n] : \A i, j \in 1..n : p[i] = p[j] => i = j}
  IN {[i \in 1..n |-> items[p[i]]] : p \in perms}

\* what matched.sort(comparator) can leave in the array: the stable order
\* under a consistent comparator, some reordering otherwise
SortOutcomes(items, sort) ==
  IF ConsistentComparator(items, sort) THEN {StableSort(items, sort)}
  ELSE Reorderings(items)

(***************************************************************************)
(* Sample data: the inputs the model draws from.                           *)
(***************************************************************************)
NoData == <<"n", "o", "_", "d", "a", "t", "a">>

Acme ==
  [company_name |-> <<"A", "c", "m", "e">>,
   country |-> <<"U", "S">>,
   annual_revenue_usd |-> <<"5", "0", "0", "0", "0", "0">>]

Globex ==
  [company_name |-> <<"G", "l", "o", "b", "e", "x">>,
   country |-> <<"U", "K">>,
   annual_revenue_usd |-> <<>>]

\* a row with an empty name, a lower-case country and a non-numeric revenue
Initech ==
  [company_name |-> <<>>,
   country |-> <<"u", "s">>,
   annual_revenue_usd |-> <<"n", "/", "a">>]

\* a short line: no cell for the last column
ShortRow ==
  [company_name |-> <<"A", "c", "m", "e">>,
   country |-> <<"U", "S">>]

\* a revenue written with a leading zero
ZeroRow ==
  [company_name |-> <<" ", "a", "c", "m", "e", " ">>,
   country |-> <<"U", "S">>,
   annual_revenue_usd |-> <<"0", "7">>]

\* a second entry of the first company, with the same revenue
AcmeUK ==
  [company_name |-> <<"A", "c", "m", "e">>,
   country |-> <<"U", "K">>,
   annual_revenue_usd |-> <<"5", "0", "0", "0", "0", "0">>]

\* the rows a store is made of
SampleRows == {Acme, Globex, Initech}

\* the rows applyFilters is evaluated on in SpecEval
EvalRows == SampleRows \cup {ShortRow, ZeroRow}

\* the filter vocabulary
Vocabulary == {"eq", "contains", "gt", "lt"}

\* the conditions applyFilters is evaluated on in SpecEval
SampleConds ==
  { Cond("country", "eq", Str(<<"U", "S">>)),
    Cond("country", "eq", Str(<<"u", "s">>)),
    Cond("country", "contains", Str(<<"u">>)),
    Cond("country", "contains", Str(<<>>)),
    Cond("country", "eq", Undefined),
    Cond("country", "ne", Str(<<"U", "S">>)),
    Cond("country", "undefined", Str(<<"U", "S">>)),
    Cond("annual_revenue_usd", "gt", Str(<<"1", "0", "0", "0", "0", "0">>)),
    Cond("annual_revenue_usd", "lt", Str(<<"1", "0", "0", "0", "0", "0">>)),
    Cond("annual_revenue_usd", "gt", Str(<<"x">>)),
    Cond("annual_revenue_usd", "lt", Str(<<"x">>)),
    Cond("annual_revenue_usd", "gt", Num(5)),
    Cond("annual_revenue_usd", "gt", Undefined),
    Cond("annual_revenue_usd", "eq", Num(7)),
    Cond("annual_revenue_usd", "eq", Str(<<"7">>)),
    Cond("annual_revenue_usd", "eq", Str(NoData)),
    Cond("annual_revenue_usd", "contains", Str(<<>>)),
    Cond("annual_revenue_usd", "contains", Str(NoData)),
    Cond("constructor", "eq", Str(<<"x">>)),
    Cond("constructor", "contains", Str(<<"x">>)),
    Cond("zip", "eq", Str(<<"x">>)),
    Cond("undefined", "eq", Str(<<"U", "S">>)) }

\* the sequences over S of length at most n
SeqsUpTo(S, n) == UNION {[1..k -> S] : k \in 0..n}

VARIABLES
  variant,      \* the server file that runs
  load,         \* the state of the promise loadCSV returned
  loaded,       \* the rows the promise was fulfilled with
  phase,        \* the process: "starting", "listening", "exited", "crashed"
  companies,    \* the module-level array `companies`
  resp,         \* the request being answered and the response sent for it
  evalPc,       \* SpecEval: "input", then "done"; "off" in Spec
  evalRow,      \* SpecEval: the row handed to applyFilters
  evalFilters,  \* SpecEval: the filter list handed to applyFilters
  evalOut,      \* SpecEval: what each variant of applyFilters returned
  normPc,       \* SpecNorm: "input", "once", then "twice"; "off" elsewhere
  normIn,       \* SpecNorm: the object handed to fillMissingFields
  normOut,      \* SpecNorm: what fillMissingFields returned for normIn
  normAgain,    \* SpecNorm: what fillMissingFields returned for normOut
  sortPc,       \* SpecSort: "input", then "done"; "off" elsewhere
  sortIn,       \* SpecSort: the array `matched` before matched.sort
  sortBy,       \* SpecSort: the sort spec of the request
  sortOut,      \* SpecSort: the array `matched` after matched.sort
  pagePc,       \* SpecPage: "input", "paging", then "done"; "off" elsewhere
  pageRoute,    \* SpecPage: the search route that is asked
  pageFull,     \* SpecPage: the array `matched` the handler slices
  pageFirst,    \* SpecPage: limit and offset of the first request
  pageReq,      \* SpecPage: limit and offset of the next request
  pageOut,      \* SpecPage: the page of the last response
  pageSeen,     \* SpecPage: the pages received so far, one after the other
  pending,      \* SpecServe: the request being handled, or NoRequest
  sent          \* SpecServe: the replies sent for the pending request

vars ==
  <<variant, load, loaded, phase, companies, resp,
    evalPc, evalRow, evalFilters, evalOut,
    normPc, normIn, normOut, normAgain,
    sortPc, sortIn, sortBy, sortOut,
    pagePc, pageRoute, pageFull, pageFirst, pageReq, pageOut, pageSeen,
    pending, sent>>

NoResponse == [op |-> "none"]

serverVars == <<variant, load, loaded, phase, companies, resp>>
evalVars == <<evalPc, evalRow, evalFilters, evalOut>>
normVars == <<normPc, normIn, normOut, normAgain>>
sortVars == <<sortPc, sortIn, sortBy, sortOut>>
pageVars ==
  <<pagePc, pageRoute, pageFull, pageFirst, pageReq, pageOut, pageSeen>>
reqVars == <<pending, sent>>

NoRequest == [op |-> "none"]

\* the values of a specification's variables that it does not use
ServerIdle ==
  /\ variant = "none"
  /\ load = "pending"
  /\ loaded = <<>>
  /\ phase = "starting"
  /\ companies = <<>>
  /\ resp = NoResponse

EvalIdle ==
  /\ evalPc = "off"
  /\ evalRow = <<>>
  /\ evalFilters = <<>>
  /\ evalOut = <<>>

NormIdle ==
  /\ normPc = "off"
  /\ normIn = <<>>
  /\ normOut = <<>>
  /\ normAgain = <<>>

SortIdle ==
  /\ sortPc = "off"
  /\ sortIn = <<>>
  /\ sortBy = Null
  /\ sortOut = <<>>

PageIdle ==
  /\ pagePc = "off"
  /\ pageRoute = Null
  /\ pageFull = <<>>
  /\ pageFirst = Null
  /\ pageReq = Null
  /\ pageOut = <<>>
  /\ pageSeen = <<>>

ReqIdle ==
  /\ pending = NoRequest
  /\ sent = <<>>


(***************************************************************************)
(* SpecEval: applyFilters as a function.  The row and the filter list are  *)
(* drawn from the sample sets and both variants are applied to them.       *)
(***************************************************************************)
EvalInit ==
  /\ evalPc = "input"
  /\ evalRow \in EvalRows
  /\ evalFilters \in SeqsUpTo(SampleConds, MaxFilters)
  /\ evalOut = [strict |-> Returned(TRUE), mcp |-> Returned(TRUE)]
  /\ ServerIdle
  /\ NormIdle
  /\ SortIdle
  /\ PageIdle
  /\ ReqIdle

Evaluate ==
  /\ evalPc = "input"
  /\ evalPc' = "done"
  /\ evalOut' = [strict |-> applyFilters(evalRow, evalFilters),
                 mcp |-> applyFiltersMcp(evalRow, evalFilters)]
  /\ UNCHANGED <<evalRow, evalFilters, serverVars, normVars, sortVars,
               pageVars, reqVars>>

EvalNext == Evaluate

SpecEval == EvalInit /\ [][EvalNext]_vars

(***************************************************************************)
(* SpecNorm: fillMissingFields as a function.  The object is drawn from    *)
(* the objects over the sample keys and values; the function is applied to *)
(* it, and then to its own result.                                         *)
(***************************************************************************)
NormKeys == {"company_name", "country", "annual_revenue_usd"}

NormValues ==
  {Str(<<>>), Str(<<" ">>), Str(<<"U", "S">>), Str(NoData),
   Undefined, Null, Num(0)}

NormObjects == UNION {[K -> NormValues] : K \in SUBSET NormKeys}

NormInit ==
  /\ normPc = "input"
  /\ normIn \in NormObjects
  /\ normOut = <<>>
  /\ normAgain = <<>>
  /\ ServerIdle
  /\ EvalIdle
  /\ SortIdle
  /\ PageIdle
  /\ ReqIdle

\* fillMissingFields(row)
Normalize ==
  /\ normPc = "input"
  /\ normPc' = "once"
  /\ normOut' = fillMissingFieldsObject(normIn)
  /\ UNCHANGED <<normIn, normAgain, serverVars, evalVars, sortVars,
               pageVars, reqVars>>

\* fillMissingFields(fillMissingFields(row))
NormalizeAgain ==
  /\ normPc = "once"
  /\ normPc' = "twice"
  /\ normAgain' = fillMissingFieldsObject(normOut)
  /\ UNCHANGED <<normIn, normOut, serverVars, evalVars, sortVars,
               pageVars, reqVars>>

NormNext == Normalize \/ NormalizeAgain

SpecNorm == NormInit /\ [][NormNext]_vars

(***************************************************************************)
(* The servers.  The repository holds seven server files (src/index.js and *)
(* the three parts each hold more than one); `variant` says which one      *)
(* runs.  Each search route and each lookup route is described by what its *)
(* handler does differently from the others:                               *)
(*   defaultLimit  the default of `limit` in the handler's destructuring   *)
(*   sorts         whether the handler reads `sort` and sorts `matched`    *)
(*   cap           "none": slice(offset, offset + limit);                  *)
(*                 "min": limit is Math.min(limit, 50);                    *)
(*                 "clamp": limit is clamped to 1..50, offset to >= 0      *)
(*   evaluator     which applyFilters the file defines                     *)
(*   normalize     whether the results go through fillMissingFields        *)
(*   onThrow       what answers an exception of the handler:               *)
(*                 "express": no try/catch, Express answers 500;           *)
(*                 "catch500": the handler's catch answers 500;            *)
(*                 "rpcError": the handler's catch answers a JSON-RPC      *)
(*                 error with status 200                                   *)
(***************************************************************************)
Variants ==
  {"index_tools", "index_actions", "part0_mcp", "part1_mcp",
   "part1_actions", "part2_rest", "part2_mcp"}

\* whether the file's loadCSV(...).then(...) is followed by .catch(...)
HasCatch(v) == v # "part1_mcp"

IndexToolsSearch ==
  [variant |-> "index_tools", route |-> "POST /tools/call search",
   defaultLimit |-> 50, sorts |-> TRUE, cap |-> "none",
   evaluator |-> "strict", normalize |-> TRUE, onThrow |-> "express"]

IndexSearch ==
  [variant |-> "index_tools", route |-> "POST /search",
   defaultLimit |-> 50, sorts |-> TRUE, cap |-> "none",
   evaluator |-> "strict", normalize |-> TRUE, onThrow |-> "express"]

IndexSearchCompanies ==
  [variant |-> "index_actions", route |-> "POST /search-companies",
   defaultLimit |-> 10, sorts |-> FALSE, cap |-> "none",
   evaluator |-> "strict", normalize |-> TRUE, onThrow |-> "express"]

IndexActionsToolsSearch ==
  [variant |-> "index_actions", route |-> "POST /tools/call search",
   defaultLimit |-> 50, sorts |-> FALSE, cap |-> "none",
   evaluator |-> "strict", normalize |-> TRUE, onThrow |-> "express"]

Part0McpSearch ==
  [variant |-> "part0_mcp", route |-> "POST /mcp search_companies",
   defaultLimit |-> 10, sorts |-> FALSE, cap |-> "min",
   evaluator |-> "strict", normalize |-> TRUE, onThrow |-> "catch500"]

Part1SearchCompanies ==
  [variant |-> "part1_actions", route |-> "POST /search-companies",
   defaultLimit |-> 10, sorts |-> FALSE, cap |-> "none",
   evaluator |-> "strict", normalize |-> TRUE, onThrow |-> "catch500"]

Part1ToolsSearch ==
  [variant |-> "part1_actions", route |-> "POST /tools/call search",
   defaultLimit |-> 50, sorts |-> FALSE, cap |-> "none",
   evaluator |-> "strict", normalize |-> TRUE, onThrow |-> "catch500"]

Part2Search ==
  [variant |-> "part2_rest", route |-> "POST /search",
   defaultLimit |-> 50, sorts |-> TRUE, cap |-> "none",
   evaluator |-> "strict", normalize |-> TRUE, onThrow |-> "express"]

Part2McpSearch ==
  [variant |-> "part2_mcp", route |-> "POST /mcp search_companies",
   defaultLimit |-> 10, sorts |-> FALSE, cap |-> "clamp",
   evaluator |-> "mcp", normalize |-> FALSE, onThrow |-> "rpcError"]

SearchRoutes ==
  {IndexToolsSearch, IndexSearch, IndexSearchCompanies,
   IndexActionsToolsSearch, Part0McpSearch, Part1SearchCompanies,
   Part1ToolsSearch, Part2Search, Part2McpSearch}

\* the HTTP status of the answer to a handler that threw
StatusOnThrow(route) == IF route.onThrow = "rpcError" THEN 200 ELSE 500

\* the route's applyFilters given the row fillMissingFields returns
RouteFilterNormalized(route, row, filters) ==
  IF route.evaluator = "mcp"
  THEN applyFiltersMcp(fillMissingFields(row), filters)
  ELSE applyFilters(fillMissingFields(row), filters)

\* the route's applyFilters
RouteFilter(route, row, filters) ==
  IF route.evaluator = "mcp" THEN applyFiltersMcp(row, filters)
  ELSE applyFilters(row, filters)

\* the limit the handler slices with
EffectiveLimit(route, req) ==
  LET raw == IF req.limit.t = "undefined" THEN route.defaultLimit
             ELSE req.limit.n
  IN CASE route.cap = "min" -> Min(raw, 50)
       [] route.cap = "clamp" -> Min(Max(raw, 1), 50)
       [] OTHER -> raw

\* the offset taken as the number of the first record, counted from 1
EffectiveOffsetOneBased(route, req) ==
  LET raw == IF req.offset.t = "undefined" THEN 0 ELSE req.offset.n
  IN IF route.cap = "clamp" THEN Max(raw, 0) + 1 ELSE raw + 1

\* the offset the handler slices with
EffectiveOffset(route, req) ==
  LET raw == IF req.offset.t = "undefined" THEN 0 ELSE req.offset.n
  IN IF route.cap = "clamp" THEN Max(raw, 0) ELSE raw

\* the handler working on the store's own array (companies.sort(...))
MatchedArrayInPlace(route, store, kept) ==
  [aliasesStore |-> TRUE,
   items |-> IF route.normalize
             THEN [i \in DOMAIN kept |-> fillMissingFields(kept[i])]
             ELSE kept]

\* `matched`: the array companies.filter(...) returns, mapped through
\* fillMissingFields where the handler does so.  filter and map return
\* a new array, never the store's.
MatchedArray(route, store, kept) ==
  [aliasesStore |-> FALSE,
   items |-> IF route.normalize
             THEN [i \in DOMAIN kept |-> fillMissingFields(kept[i])]
             ELSE kept]

\* whether the handler sorts `matched` for this request: sort && sort.field
SortRequested(route, req) ==
  route.sorts /\ req.sort.t = "object" /\ req.sort.field # ""

\* total taken from the page instead of the matched list
SearchTotalOfPage(matched, page) == Len(page)

\* `total` of the response
SearchTotal(matched, page) == Len(matched)

\* `page`: matched.slice(offset, offset + limit)
PageOf(route, items, req) ==
  Slice(items, EffectiveOffset(route, req),
        EffectiveOffset(route, req) + EffectiveLimit(route, req))

\* The responses a search handler can send for a request, each with the
\* array the in-place sort left behind.
SearchOutcomes(route, store, req) ==
  IF \E i \in DOMAIN store : RouteFilter(route, store[i], req.filters).threw
  THEN {[op |-> "search", route |-> route, req |-> req,
         status |-> StatusOnThrow(route), outcome |-> "error",
         total |-> 0, results |-> <<>>, sortedStore |-> FALSE,
         matched |-> <<>>]}
  ELSE
    LET kept == SelectSeq(store,
                  LAMBDA row : RouteFilter(route, row, req.filters).ret)
        matched == MatchedArray(route, store, kept)
        orders == IF SortRequested(route, req)
                  THEN SortOutcomes(matched.items, req.sort)
                  ELSE {matched.items}
    IN {[op |-> "search", route |-> route, req |-> req,
         status |-> 200, outcome |-> "ok",
         total |-> SearchTotal(sorted, PageOf(route, sorted, req)),
         results |-> PageOf(route, sorted, req),
         sortedStore |-> SortRequested(route, req) /\ matched.aliasesStore,
         matched |-> sorted] : sorted \in orders}

(***************************************************************************)
(* Lookup routes.                                                          *)
(*   byId      whether the handler reads `id` and looks it up first        *)
(*   guard     how the handler treats the name before comparing:           *)
(*             "elseif": else if (name), a falsy name finds nothing;       *)
(*             "required": if (!name) answers that the name is missing;    *)
(*             "none": no test, name.toLowerCase() is called as is;        *)
(*             "optional": target = args?.name?.toLowerCase().trim();      *)
(*             "target": the same, then if (!target) answers missing       *)
(*   missing   the HTTP status of the missing-name answer                  *)
(*   notFound  the HTTP status of the not-found answer                     *)
(***************************************************************************)
IndexToolsGetCompany ==
  [variant |-> "index_tools", route |-> "POST /tools/call get_company",
   byId |-> TRUE, guard |-> "elseif", missing |-> 200, notFound |-> 200,
   normalize |-> TRUE, onThrow |-> "express", query |-> FALSE]

IndexGetCompany ==
  [variant |-> "index_tools", route |-> "GET /get-company",
   byId |-> TRUE, guard |-> "elseif", missing |-> 404, notFound |-> 404,
   normalize |-> TRUE, onThrow |-> "express", query |-> TRUE]

IndexCompany ==
  [variant |-> "index_actions", route |-> "GET /company",
   byId |-> FALSE, guard |-> "required", missing |-> 400, notFound |-> 404,
   normalize |-> TRUE, onThrow |-> "express", query |-> TRUE]

IndexActionsToolsGetCompany ==
  [variant |-> "index_actions", route |-> "POST /tools/call get_company",
   byId |-> FALSE, guard |-> "none", missing |-> 200, notFound |-> 200,
   normalize |-> TRUE, onThrow |-> "express", query |-> FALSE]

Part0McpGetCompany ==
  [variant |-> "part0_mcp", route |-> "POST /mcp get_company",
   byId |-> FALSE, guard |-> "required", missing |-> 200, notFound |-> 200,
   normalize |-> TRUE, onThrow |-> "catch500", query |-> FALSE]

Part1McpGetCompany ==
  [variant |-> "part1_mcp", route |-> "POST /mcp get_company",
   byId |-> FALSE, guard |-> "optional", missing |-> 200, notFound |-> 200,
   normalize |-> FALSE, onThrow |-> "rpcError", query |-> FALSE]

Part1Company ==
  [variant |-> "part1_actions", route |-> "GET /company",
   byId |-> FALSE, guard |-> "required", missing |-> 400, notFound |-> 404,
   normalize |-> TRUE, onThrow |-> "catch500", query |-> TRUE]

Part1ToolsGetCompany ==
  [variant |-> "part1_actions", route |-> "POST /tools/call get_company",
   byId |-> FALSE, guard |-> "none", missing |-> 200, notFound |-> 200,
   normalize |-> TRUE, onThrow |-> "catch500", query |-> FALSE]

Part2GetCompany ==
  [variant |-> "part2_rest", route |-> "GET /get-company",
   byId |-> TRUE, guard |-> "elseif", missing |-> 404, notFound |-> 404,
   normalize |-> TRUE, onThrow |-> "express", query |-> TRUE]

Part2McpGetCompany ==
  [variant |-> "part2_mcp", route |-> "POST /mcp get_company",
   byId |-> FALSE, guard |-> "target", missing |-> 200, notFound |-> 200,
   normalize |-> FALSE, onThrow |-> "rpcError", query |-> FALSE]

LookupRoutes ==
  {IndexToolsGetCompany, IndexGetCompany, IndexCompany,
   IndexActionsToolsGetCompany, Part0McpGetCompany, Part1McpGetCompany,
   Part1Company, Part1ToolsGetCompany, Part2GetCompany, Part2McpGetCompany}

\* (c.company_name || "").toLowerCase().trim()
RowName(c) ==
  LET v == Get(c, "company_name")
  IN trim(toLowerCase(IF Truthy(v) THEN v.s ELSE <<>>))

\* companies.find(callback): the first element the callback holds for,
\* Undefined when there is none; hits are the indices it holds for
Find(store, hits) ==
  IF hits # {}
  THEN Returned(store[CHOOSE i \in hits : \A j \in hits : i <= j])
  ELSE Returned(Undefined)

\* companies.find(c => RowName(c) === name.toLowerCase().trim()): the
\* callback throws, on the first row, when name has no toLowerCase
FindByName(store, name) ==
  IF store = <<>> THEN Returned(Undefined)
  ELSE IF name.t # "string" THEN Thrown
  ELSE Find(store, {i \in DOMAIN store :
                      RowName(store[i]) = trim(toLowerCase(name.s))})

\* args?.name?.toLowerCase().trim()
Target(name) ==
  IF name.t \in {"undefined", "null"} THEN Returned(Undefined)
  ELSE IF name.t # "string" THEN Thrown
  ELSE Returned(Str(trim(toLowerCase(name.s))))

\* companies.find(x => RowName(x) === target)
FindByTarget(store, target) ==
  Find(store, {i \in DOMAIN store :
                 target.t = "string" /\ RowName(store[i]) = target.s})

\* companies.find(c => c.id === id || c.ID === id)
FindById(store, id) ==
  Find(store, {i \in DOMAIN store :
                 \/ (Get(store[i], "id").t = id.t /\ Get(store[i], "id") = id)
                 \/ (Get(store[i], "ID").t = id.t /\ Get(store[i], "ID") = id)})

\* What the handler's search for the record comes to: Thrown, or
\* Returned(row), Returned(Undefined) (nothing found) or Returned(Null)
\* (the handler answered that the name is missing before searching).
LookupFound(route, store, req) ==
  IF route.byId /\ Truthy(req.id) THEN FindById(store, req.id)
  ELSE CASE route.guard = "elseif" ->
              IF Truthy(req.name) THEN FindByName(store, req.name)
              ELSE Returned(Undefined)
         [] route.guard = "required" ->
              IF Truthy(req.name) THEN FindByName(store, req.name)
              ELSE Returned(Null)
         [] route.guard = "none" -> FindByName(store, req.name)
         [] route.guard = "optional" ->
              IF Target(req.name).threw THEN Thrown
              ELSE FindByTarget(store, Target(req.name).ret)
         [] OTHER ->
              IF Target(req.name).threw THEN Thrown
              ELSE IF ~Truthy(Target(req.name).ret) THEN Returned(Null)
              ELSE FindByTarget(store, Target(req.name).ret)

\* the record a lookup answers with
ReturnedRecord(route, found) ==
  IF route.normalize THEN fillMissingFields(found) ELSE found

\* the response of a lookup handler
LookupResponse(route, store, req) ==
  LET found == LookupFound(route, store, req)
      base == [op |-> "lookup", route |-> route, req |-> req]
  IN IF found.threw
     THEN base @@ [status |-> StatusOnThrow(route), outcome |-> "error",
                   record |-> <<>>]
     ELSE IF DOMAIN found.ret = {"t"} /\ found.ret.t = "null"
     THEN base @@ [status |-> route.missing, outcome |-> "missing_name",
                   record |-> <<>>]
     ELSE IF DOMAIN found.ret = {"t"} /\ found.ret.t = "undefined"
     THEN base @@ [status |-> route.notFound, outcome |-> "not_found",
                   record |-> <<>>]
     ELSE base @@ [status |-> 200, outcome |-> "found",
                   record |-> ReturnedRecord(route, found.ret)]

(***************************************************************************)
(* The requests the model sends.                                           *)
(***************************************************************************)
SearchFilterSets ==
  { <<>>,
    <<Cond("country", "eq", Str(<<"U", "S">>))>>,
    <<Cond("annual_revenue_usd", "gt", Str(<<"1", "0", "0", "0", "0", "0">>))>>,
    <<Cond("annual_revenue_usd", "lt", Str(<<"1", "0", "0", "0", "0", "0">>))>>,
    <<Cond("constructor", "contains", Str(<<"x">>))>>,
    <<Cond("annual_revenue_usd", "eq", Str(NoData))>>,
    <<Cond("annual_revenue_usd", "contains", Str(NoData))>> }

Limits == {Undefined} \cup {Num(n) : n \in 0..MaxRows}
Offsets == {Undefined} \cup {Num(n) : n \in 0..(MaxRows + 1)}

SortSpec(field, dir) == [t |-> "object", field |-> field, dir |-> dir]
Sorts ==
  {Null, SortSpec("annual_revenue_usd", "asc"),
   SortSpec("annual_revenue_usd", "desc")}

SearchRequests(route) ==
  [filters : SearchFilterSets, limit : Limits, offset : Offsets,
   sort : IF route.sorts THEN Sorts ELSE {Null}]

LookupNames(route) ==
  {Undefined, Str(<<>>), Str(<<" ">>), Str(<<"a", "c", "m", "e">>),
   Str(<<" ", "A", "C", "M", "E", " ">>),
   Str(<<"g", "l", "o", "b", "e", "x">>), Str(<<"x">>)}
  \cup (IF route.query THEN {ArrayValue} ELSE {Num(5)})

LookupIds(route) ==
  IF route.byId THEN {Undefined, Str(<<>>), Str(<<"7">>)} ELSE {Undefined}

LookupRequests(route) == [name : LookupNames(route), id : LookupIds(route)]

(***************************************************************************)
(* SpecSort: matched.sort(comparator) as a function.  `matched` holds      *)
(* normalized rows, as it does where the handlers sort it.                 *)
(***************************************************************************)
MaxSortLen == 4

\* the rows of `matched`: matched.map((r) => fillMissingFields(r))
SortRows ==
  {fillMissingFields(r) : r \in {Acme, AcmeUK, Globex, ZeroRow}}

SortSpecs ==
  {SortSpec(f, d) : f \in {"annual_revenue_usd", "country"},
                    d \in {"asc", "desc"}}

SortInit ==
  /\ sortPc = "input"
  /\ sortIn \in SeqsUpTo(SortRows, MaxSortLen)
  /\ sortBy \in SortSpecs
  /\ sortOut = <<>>
  /\ ServerIdle
  /\ EvalIdle
  /\ NormIdle
  /\ PageIdle
  /\ ReqIdle

\* matched.sort((a, b) => ...)
Sort ==
  /\ sortPc = "input"
  /\ sortPc' = "done"
  /\ sortOut' \in SortOutcomes(sortIn, sortBy)
  /\ UNCHANGED <<sortIn, sortBy, serverVars, evalVars, normVars,
               pageVars, reqVars>>

SortNext == Sort

SpecSort == SortInit /\ [][SortNext]_vars

(***************************************************************************)
(* SpecPage: a client reads the result of a search page by page.  Only the *)
(* length of `matched` and the positions of its elements matter to the     *)
(* slice, so `matched` holds the positions 1..n.                           *)
(***************************************************************************)
MaxMatched == 52

\* one search route for each way of treating limit and offset
PageRoutes == {IndexSearchCompanies, Part0McpSearch, Part2McpSearch}

PageLimits == {Num(n) : n \in {-1, 0, 1, 7, 50, 51}}
PageOffsets == {Num(n) : n \in {-1, 0, 1, 51}}

PageInit ==
  /\ pagePc = "input"
  /\ pageRoute \in PageRoutes
  /\ pageFull \in {[i \in 1..n |-> i] : n \in 0..MaxMatched}
  /\ pageFirst \in [limit : PageLimits, offset : PageOffsets]
  /\ pageReq = pageFirst
  /\ pageOut = <<>>
  /\ pageSeen = <<>>
  /\ ServerIdle
  /\ EvalIdle
  /\ NormIdle
  /\ SortIdle
  /\ ReqIdle

\* the handler answers the request with its page; the client then asks for
\* the page that follows, offset + limit, as long as there can be one
TurnPage ==
  /\ pagePc \in {"input", "paging"}
  /\ pageOut' = PageOf(pageRoute, pageFull, pageReq)
  /\ pageSeen' = pageSeen \o pageOut'
  /\ IF /\ pageReq.limit.n >= 1
        /\ pageReq.offset.n >= 0
        /\ pageReq.offset.n + pageReq.limit.n < Len(pageFull)
     THEN /\ pagePc' = "paging"
          /\ pageReq' = [pageReq EXCEPT
                           !.offset = Num(pageReq.offset.n + pageReq.limit.n)]
     ELSE /\ pagePc' = "done"
          /\ pageReq' = pageReq
  /\ UNCHANGED <<pageRoute, pageFull, pageFirst, serverVars, evalVars,
                 normVars, sortVars, reqVars>>

PageNext == TurnPage

SpecPage == PageInit /\ [][PageNext]_vars

(***************************************************************************)
(* Spec: a server from start-up on.                                        *)
(***************************************************************************)
Init ==
  /\ variant \in Variants
  /\ load = "pending"
  /\ loaded = <<>>
  /\ phase = "starting"
  /\ companies = <<>>
  /\ resp = NoResponse
  /\ EvalIdle
  /\ NormIdle
  /\ SortIdle
  /\ PageIdle
  /\ ReqIdle

\* the stream ends: resolve(rows)
LoadFulfil ==
  /\ load = "pending"
  /\ load' = "fulfilled"
  /\ loaded' \in SeqsUpTo(SampleRows, MaxRows)
  /\ UNCHANGED <<variant, phase, companies, resp,
               evalVars, normVars, sortVars,
               pageVars, reqVars>>

\* the file is missing or the stream fails: reject(err)
LoadReject ==
  /\ load = "pending"
  /\ load' = "rejected"
  /\ UNCHANGED <<variant, loaded, phase, companies, resp,
               evalVars, normVars, sortVars,
               pageVars, reqVars>>

\* the callback run whenever the promise settles (as .finally() would)
ThenRunsOnSettle(ld) == ld # "pending"

\* whether the callback handed to .then() runs
ThenRuns(ld) == ld = "fulfilled"

\* .then((rows) => { companies = rows; app.listen(PORT, ...) })
ThenCallback ==
  /\ phase = "starting"
  /\ ThenRuns(load)
  /\ companies' = loaded
  /\ phase' = "listening"
  /\ UNCHANGED <<variant, load, loaded, resp, evalVars, normVars, sortVars,
               pageVars, reqVars>>

\* .catch((err) => { console.error(...); process.exit(1) })
CatchCallback ==
  /\ phase = "starting"
  /\ load = "rejected"
  /\ HasCatch(variant)
  /\ phase' = "exited"
  /\ UNCHANGED <<variant, load, loaded, companies, resp,
               evalVars, normVars, sortVars,
               pageVars, reqVars>>

\* A rejection nothing handles: Node ends the process with an error, or
\* (older versions, or --unhandled-rejections=warn) prints a warning and
\* the process, with nothing left to wait for, ends.
UnhandledRejection ==
  /\ phase = "starting"
  /\ load = "rejected"
  /\ ~HasCatch(variant)
  /\ phase' \in {"crashed", "ended"}
  /\ UNCHANGED <<variant, load, loaded, companies, resp,
               evalVars, normVars, sortVars,
               pageVars, reqVars>>

\* a search request is handled
Search ==
  /\ phase = "listening"
  /\ resp = NoResponse
  /\ \E route \in SearchRoutes :
       /\ route.variant = variant
       /\ \E req \in SearchRequests(route) :
            \E r \in SearchOutcomes(route, companies, req) :
              /\ resp' = r
              /\ companies' = IF r.sortedStore THEN r.matched ELSE companies
  /\ UNCHANGED <<variant, load, loaded, phase, evalVars, normVars, sortVars,
               pageVars, reqVars>>

\* a lookup request is handled
Lookup ==
  /\ phase = "listening"
  /\ resp = NoResponse
  /\ \E route \in LookupRoutes :
       /\ route.variant = variant
       /\ \E req \in LookupRequests(route) :
            resp' = LookupResponse(route, companies, req)
  /\ UNCHANGED <<variant, load, loaded, phase, companies,
               evalVars, normVars, sortVars,
               pageVars, reqVars>>

\* the response is sent and the request's values are dropped
Done ==
  /\ resp # NoResponse
  /\ resp' = NoResponse
  /\ UNCHANGED <<variant, load, loaded, phase, companies,
               evalVars, normVars, sortVars,
               pageVars, reqVars>>

Next ==
  \/ LoadFulfil
  \/ LoadReject
  \/ ThenCallback
  \/ CatchCallback
  \/ UnhandledRejection
  \/ Search
  \/ Lookup
  \/ Done

Spec == Init /\ [][Next]_vars

(***************************************************************************)
(* SpecServe: a listening server and the requests it receives, one at a    *)
(* time.  A request passes express.json(), then its route's handler runs   *)
(* to its end, and what the handler throws reaches Express's error         *)
(* handler.  `sent` collects the replies written for the request in hand.  *)
(***************************************************************************)
\* the servers with a JSON-RPC endpoint POST /mcp
McpVariants == {"part0_mcp", "part1_mcp", "part2_mcp"}

\* the servers with POST /tools/call
ToolsCallVariants == {"index_tools", "index_actions", "part1_actions"}

\* the methods sent to POST /mcp; "foo" is a method no server knows
RpcMethods ==
  {"initialize", "tools/list", "tools/call", "notifications/initialized",
   "foo"}

\* the params sent with them: none, or the name of a tool no server has
RpcParams == {Undefined, [t |-> "object", name |-> "nope"]}

\* the stores the server has loaded
ServeStores == {<<>>, <<Acme>>, <<Initech, Acme>>}

\* the searches sent: every filter list, default limit, offset and order
ServeSearchRequests(route) ==
  {q \in SearchRequests(route) :
     q.limit = Undefined /\ q.offset = Undefined /\ q.sort = Null}

\* the requests a client sends to the server v
ServeRequests(v) ==
  UNION {{[op |-> "search", route |-> r, req |-> q] :
            q \in ServeSearchRequests(r)} :
          r \in {x \in SearchRoutes : x.variant = v}}
  \cup UNION {{[op |-> "lookup", route |-> r, req |-> q] :
                 q \in LookupRequests(r)} :
               r \in {x \in LookupRoutes : x.variant = v}}
  \cup (IF v \in McpVariants
        THEN {[op |-> "rpc", method |-> m, params |-> p] :
                m \in RpcMethods, p \in RpcParams}
        ELSE {})
  \cup (IF v \in ToolsCallVariants
        THEN {[op |-> "tool", name |-> n] :
                n \in {Undefined, Str(<<"n", "o", "p", "e">>)}}
        ELSE {})
  \cup {[op |-> "malformed"]}

\* what a handler comes to: the replies it wrote, and whether it threw
Replied(r) == [threw |-> FALSE, replies |-> <<r>>]
Raised == [threw |-> TRUE, replies |-> <<>>]

\* res.json({ jsonrpc: "2.0", id, result }) and
\* res.json({ jsonrpc: "2.0", id, error: { code, message } })
RpcResult(what) ==
  [status |-> 200, kind |-> "rpc_result", code |-> 0, message |-> what]
RpcError(status, code, message) ==
  [status |-> status, kind |-> "rpc_error", code |-> code,
   message |-> message]

\* the default case of the switch over the method
McpDefault(v) ==
  IF v = "part0_mcp"
  THEN Replied(RpcError(200, -32601, "Method not found"))
  ELSE Replied(RpcError(200, -32601, "Unknown method"))

\* the catch block of the handler of POST /mcp
McpCatch(v) ==
  IF v = "part0_mcp"
  THEN Replied(RpcError(500, -32603, "Internal error"))
  ELSE Replied(RpcError(200, -32603, "Internal error"))

\* the tools/call case ending in `break`
ToolsCallEndBreak(v) ==
  CASE v = "part0_mcp" -> Replied(RpcError(200, -32601, "Tool not found"))
    [] v = "part1_mcp" -> [threw |-> FALSE, replies |-> <<>>]
    [] OTHER -> Replied(RpcError(200, -32601, "Unknown tool"))

\* The end of the tools/call case, reached when the name is that of no
\* tool: part_000 and part_002 answer "unknown tool"; the case of part_001
\* has no statement left and no break, and falls through to the default.
ToolsCallEnd(v) ==
  CASE v = "part0_mcp" -> Replied(RpcError(200, -32601, "Tool not found"))
    [] v = "part1_mcp" -> McpDefault(v)
    [] OTHER -> Replied(RpcError(200, -32601, "Unknown tool"))

\* case "tools/call" with a name that is no tool's: part_000 and part_001
\* destructure params, which throws into the catch block when there are
\* none; part_002 destructures params || {}
McpToolsCall(v, params) ==
  IF params.t = "undefined" /\ v # "part2_mcp" THEN McpCatch(v)
  ELSE ToolsCallEnd(v)

\* the handler of POST /mcp on a method other than a call of its tools
McpHandler(v, rq) ==
  CASE rq.method \in {"initialize", "tools/list"} ->
         Replied(RpcResult(rq.method))
    [] rq.method = "tools/call" -> McpToolsCall(v, rq.params)
    [] rq.method = "notifications/initialized" /\ v = "part0_mcp" ->
         Replied([status |-> 200, kind |-> "empty", code |-> 0,
                  message |-> ""])
    [] OTHER -> McpDefault(v)

\* the handler of POST /tools/call on a name that is no tool's, or none
ToolsCallHandler(v, rq) ==
  Replied([status |-> 400, kind |-> "tool_error", code |-> 0,
           message |-> IF v = "index_tools" /\ rq.name.t = "undefined"
                       THEN "Tool name is required" ELSE "Tool not found"])

\* a search or lookup handler: its response is its reply, unless it threw
\* with no try around it
RouteHandler(r) ==
  IF r.outcome = "error" /\ r.route.onThrow = "express" THEN Raised
  ELSE Replied(r)

\* the outcomes of the handler of the request rq: what it comes to and the
\* store it leaves
HandlerOutcomes(v, store, rq) ==
  CASE rq.op = "search" ->
         {[result |-> RouteHandler(r),
           store |-> IF r.sortedStore THEN r.matched ELSE store] :
            r \in SearchOutcomes(rq.route, store, rq.req)}
    [] rq.op = "lookup" ->
         {[result |-> RouteHandler(LookupResponse(rq.route, store, rq.req)),
           store |-> store]}
    [] rq.op = "rpc" -> {[result |-> McpHandler(v, rq), store |-> store]}
    [] OTHER -> {[result |-> ToolsCallHandler(v, rq), store |-> store]}

ServeInit ==
  /\ variant \in Variants
  /\ load = "fulfilled"
  /\ loaded \in ServeStores
  /\ phase = "listening"
  /\ companies = loaded
  /\ resp = NoResponse
  /\ pending = NoRequest
  /\ sent = <<>>
  /\ EvalIdle
  /\ NormIdle
  /\ SortIdle
  /\ PageIdle

\* a request arrives
Receive ==
  /\ phase = "listening"
  /\ pending = NoRequest
  /\ \E rq \in ServeRequests(variant) :
       pending' = [op |-> rq.op, rq |-> rq, pc |-> "received"]
  /\ UNCHANGED <<sent, serverVars, evalVars, normVars, sortVars, pageVars>>

\* express.json(): a body that is not JSON goes to the error handler
JsonParser ==
  /\ pending # NoRequest
  /\ pending.pc = "received"
  /\ pending' = [pending EXCEPT
                   !.pc = IF pending.op = "malformed" THEN "error"
                          ELSE "parsed"]
  /\ UNCHANGED <<sent, serverVars, evalVars, normVars, sortVars, pageVars>>

\* the route's handler runs to its end
Handle ==
  /\ pending # NoRequest
  /\ pending.pc = "parsed"
  /\ \E o \in HandlerOutcomes(variant, companies, pending.rq) :
       /\ sent' = sent \o o.result.replies
       /\ companies' = o.store
       /\ pending' = [pending EXCEPT
                        !.pc = IF o.result.threw THEN "error" ELSE "returned"]
  /\ UNCHANGED <<variant, load, loaded, phase, resp,
                 evalVars, normVars, sortVars, pageVars>>

\* Express's error handler answers for what was thrown: the status of the
\* error (400 from the body parser), or 500
ErrorHandler ==
  /\ pending # NoRequest
  /\ pending.pc = "error"
  /\ sent' = Append(sent,
                    [status |-> IF pending.op = "malformed" THEN 400 ELSE 500,
                     kind |-> "express_error", code |-> 0, message |-> ""])
  /\ pending' = [pending EXCEPT !.pc = "returned"]
  /\ UNCHANGED <<serverVars, evalVars, normVars, sortVars, pageVars>>

\* the reply has been written: the request is over
Finish ==
  /\ pending # NoRequest
  /\ pending.pc = "returned"
  /\ sent # <<>>
  /\ pending' = NoRequest
  /\ sent' = <<>>
  /\ UNCHANGED <<serverVars, evalVars, normVars, sortVars, pageVars>>

ServeNext ==
  \/ Receive
  \/ JsonParser
  \/ Handle
  \/ ErrorHandler
  \/ Finish

\* Node runs the middleware and the handler of a request it has received
\* to their end; nothing makes a client send a request.
SpecServe ==
  /\ ServeInit
  /\ [][ServeNext]_vars
  /\ WF_vars(JsonParser)
  /\ WF_vars(Handle)
  /\ WF_vars(ErrorHandler)

(***************************************************************************)
(* The claims.                                                             *)
(***************************************************************************)
\* what section 4.1 of the specification calls a satisfied condition, for
\* a condition on a column the row has
SatisfiedBy(row, c) ==
  LET actual == Str(row[c.field])
      a == Number(actual)
      v == Number(c.value)
  IN CASE c.op = "eq" -> LooseEq(actual, c.value)
       [] c.op = "contains" ->
            /\ actual.s # <<>>
            /\ includes(toLowerCase(actual.s), toLowerCase(String(c.value)))
       [] c.op = "gt" -> ~a.nan /\ ~v.nan /\ a.n > v.n
       [] c.op = "lt" -> ~a.nan /\ ~v.nan /\ a.n < v.n
       [] OTHER -> FALSE

\* a condition with its three members, an operator of the vocabulary and a
\* string or a number as value
WellFormed(c) ==
  /\ c.field # "undefined"
  /\ c.op \in Vocabulary
  /\ c.value.t \in {"string", "number"}

Malformed(c) ==
  \/ c.field = "undefined"
  \/ c.op \notin Vocabulary
  \/ c.value.t = "undefined"

RemoveAt(F, i) == SubSeq(F, 1, i - 1) \o SubSeq(F, i + 1, Len(F))

\* C1: applyFilters(r, F) is true if and only if every condition of F is
\* satisfied by r or names a field that is not a key of r.  Stated for
\* well-formed conditions and for both variants of applyFilters.
C1_MatchesIffAllSatisfied ==
  (evalPc = "done" /\ \A i \in DOMAIN evalFilters : WellFormed(evalFilters[i]))
    => LET expected ==
             Returned(\A i \in DOMAIN evalFilters :
                        \/ evalFilters[i].field \notin DOMAIN evalRow
                        \/ SatisfiedBy(evalRow, evalFilters[i]))
       IN evalOut.strict = expected /\ evalOut.mcp = expected

\* C2: the total a search reports is the number of records of the store
\* that pass the filter set, whatever limit, offset and sort are.
C2_TotalIsFilteredCount ==
  (resp.op = "search" /\ resp.outcome = "ok")
    => resp.total =
         Cardinality({i \in DOMAIN companies :
                        RouteFilter(resp.route, companies[i],
                                    resp.req.filters).ret})

\* C2's case: a filtered search whose page is shorter than its total
C2_Witness ==
  /\ resp.op = "search"
  /\ resp.outcome = "ok"
  /\ resp.req.filters # <<>>
  /\ resp.total >= 1
  /\ resp.total < Len(companies)
  /\ Len(resp.results) < resp.total

C4_ReturnedRecordsNormalized ==
  /\ (resp.op = "search" /\ resp.outcome = "ok")
       => \A i \in DOMAIN resp.results :
            \A k \in DOMAIN resp.results[i] : resp.results[i][k] # <<>>
  /\ (resp.op = "lookup" /\ resp.outcome = "found")
       => \A k \in DOMAIN resp.record : resp.record[k] # <<>>

\* C5: a lookup never ends in an exception answered with HTTP 500.
C5_LookupNever500 ==
  resp.op = "lookup" => resp.status # 500 /\ resp.outcome # "error"

\* C6: in the `in` / != variant, a gt or lt condition on a column the row
\* has matches iff both sides parse as numbers and the row's value is
\* greater (less) than the condition's.
C6_NumericComparisonStrict ==
  (/\ evalPc = "done"
   /\ Len(evalFilters) = 1
   /\ evalFilters[1].op \in {"gt", "lt"}
   /\ evalFilters[1].field \in DOMAIN evalRow)
    => LET a == Number(Str(evalRow[evalFilters[1].field]))
           v == Number(evalFilters[1].value)
       IN evalOut.strict =
            Returned(/\ ~a.nan
                     /\ ~v.nan
                     /\ IF evalFilters[1].op = "gt" THEN a.n > v.n
                        ELSE a.n < v.n)

\* C7: a malformed condition (no field, no op, no value, or an op outside
\* the vocabulary) is dropped: the result is that of the filter set without
\* it, and nothing is thrown.
C7_MalformedConditionDropped ==
  evalPc = "done"
    => \A i \in DOMAIN evalFilters :
         (/\ Malformed(evalFilters[i])
          /\ ~applyFilters(evalRow, RemoveAt(evalFilters, i)).threw)
           => /\ evalOut.strict = applyFilters(evalRow, RemoveAt(evalFilters, i))
              /\ evalOut.mcp = applyFiltersMcp(evalRow, RemoveAt(evalFilters, i))

\* C8: both variants of applyFilters return the same boolean for every row
\* and every filter set over the vocabulary.
C8_VariantsAgree ==
  (evalPc = "done"
   /\ \A i \in DOMAIN evalFilters : evalFilters[i].op \in Vocabulary)
    => evalOut.strict = evalOut.mcp

\* C9: the server listens, and answers requests, only once the load has
\* succeeded and the store holds the loaded rows; after a failed load it
\* never listens.
C9_ListenOnlyAfterLoad ==
  /\ phase = "listening" => (load = "fulfilled" /\ companies = loaded)
  /\ resp.op # "none" => (load = "fulfilled" /\ phase = "listening")
  /\ load = "rejected" => phase # "listening"

\* C9's case: the load failed in the file whose promise has no .catch(),
\* and the process has ended
C9_Witness ==
  /\ variant = "part1_mcp"
  /\ load = "rejected"
  /\ phase \in {"crashed", "ended"}

\* C10: once loaded, the store holds the loaded rows, in their order and
\* with their raw values, whatever requests were served.
C10_StoreNeverMutated ==
  phase = "listening" => companies = loaded

\* C10's case: a search sorted its matched list into an order that is not
\* the store's, and the store still holds a row with an empty value
C10_Witness ==
  /\ resp.op = "search"
  /\ resp.outcome = "ok"
  /\ resp.req.sort.t = "object"
  /\ Len(resp.matched) = 2
  /\ Len(companies) = 2
  /\ companies[1] # companies[2]
  /\ resp.matched[1] = fillMissingFields(companies[2])
  /\ \E k \in DOMAIN companies[1] : companies[1][k] = <<>>

\* the lower-cased, trimmed form of a name
NameForm(name) == trim(toLowerCase(name.s))

\* whether a lookup response carries a record, and which
FoundRecord(r) == IF r.outcome = "found" THEN <<r.record>> ELSE <<>>

\* C11: a lookup by name (no id given) gives the same outcome, the same
\* record or none, for every other name with the same lower-cased trimmed
\* form, and it finds a record iff some row's lower-cased trimmed
\* company_name equals the lower-cased trimmed input.
C11_LookupCaseInsensitiveTrimmed ==
  (/\ resp.op = "lookup"
   /\ resp.req.name.t = "string"
   /\ ~Truthy(resp.req.id))
    => /\ \A n \in LookupNames(resp.route) :
            (n.t = "string" /\ NameForm(n) = NameForm(resp.req.name))
              => FoundRecord(LookupResponse(resp.route, companies,
                                            [name |-> n, id |-> resp.req.id]))
                   = FoundRecord(resp)
       /\ (resp.outcome = "found")
            <=> \E i \in DOMAIN companies :
                  RowName(companies[i]) = NameForm(resp.req.name)

\* a value fillMissingFields replaces: "", undefined or null
EmptyValue(v) ==
  \/ v.t = "undefined"
  \/ v.t = "null"
  \/ (v.t = "string" /\ v.s = <<>>)

\* the same JavaScript value (===)
SameValue(a, b) ==
  /\ a.t = b.t
  /\ a.t = "string" => a.s = b.s
  /\ a.t = "number" => a.n = b.n

\* C12: fillMissingFields returns an object with exactly the keys of its
\* argument, in which each value that is "", undefined or null is "no_data"
\* and every other value is the argument's.
C12_FillMissingFieldsContract ==
  normPc \in {"once", "twice"}
    => /\ DOMAIN normOut = DOMAIN normIn
       /\ \A k \in DOMAIN normIn :
            IF EmptyValue(normIn[k])
            THEN SameValue(normOut[k], Str(NoData))
            ELSE SameValue(normOut[k], normIn[k])

\* C12's case: an object with an empty string, an undefined or null value
\* and the number 0 has been normalized
C12_Witness ==
  /\ normPc = "once"
  /\ \E k \in DOMAIN normIn : normIn[k].t = "string" /\ normIn[k].s = <<>>
  /\ \E k \in DOMAIN normIn : normIn[k].t \in {"undefined", "null"}
  /\ \E k \in DOMAIN normIn : normIn[k].t = "number" /\ normOut[k].t = "number"

\* C13: fillMissingFields applied to its own result returns that result.
C13_NormalizationIdempotent ==
  normPc = "twice"
    => /\ DOMAIN normAgain = DOMAIN normOut
       /\ \A k \in DOMAIN normOut : SameValue(normAgain[k], normOut[k])

\* C13's case: the first application replaced a value, and the second has
\* been made
C13_Witness ==
  /\ normPc = "twice"
  /\ \E k \in DOMAIN normIn :
       EmptyValue(normIn[k]) /\ SameValue(normOut[k], Str(NoData))
  /\ \E k \in DOMAIN normIn : ~EmptyValue(normIn[k])

\* a condition with a string or a number as value
HasValue(c) == c.value.t \in {"string", "number"}

\* a value that parses as a number: a number, or a string that is not
\* blank and that Number() converts
NumericLooking(v) ==
  /\ v.t \in {"string", "number"}
  /\ v.t = "string" => trim(v.s) # <<>>
  /\ ~Number(v).nan

\* C14: a filter list made only of conditions on fields that are not keys
\* of the row matches the row, in both variants of applyFilters.
C14_AbsentFieldSkipped ==
  (/\ evalPc = "done"
   /\ evalFilters # <<>>
   /\ \A i \in DOMAIN evalFilters : evalFilters[i].field \notin DOMAIN evalRow)
    => /\ evalOut.strict = Returned(TRUE)
       /\ evalOut.mcp = Returned(TRUE)

\* C15: an eq condition on a column the row has holds iff the two values
\* are the same string after conversion, or the condition's value is a
\* number and the row's value, however written, is that number; in both
\* variants of applyFilters.
C15_EqSemantics ==
  (/\ evalPc = "done"
   /\ Len(evalFilters) = 1
   /\ evalFilters[1].op = "eq"
   /\ HasValue(evalFilters[1])
   /\ evalFilters[1].field \in DOMAIN evalRow)
    => LET actual == Str(evalRow[evalFilters[1].field])
           value == evalFilters[1].value
           expected ==
             \/ actual.s = String(value)
             \/ /\ value.t = "number"
                /\ NumericLooking(actual)
                /\ Number(actual).n = value.n
       IN /\ evalOut.strict = Returned(expected)
          /\ evalOut.mcp = Returned(expected)

\* C16: a contains condition on a column the row has holds iff the row's
\* value is not empty and the lower-cased condition value is a substring of
\* the lower-cased row value; in both variants of applyFilters.
C16_ContainsSemantics ==
  (/\ evalPc = "done"
   /\ Len(evalFilters) = 1
   /\ evalFilters[1].op = "contains"
   /\ HasValue(evalFilters[1])
   /\ evalFilters[1].field \in DOMAIN evalRow)
    => LET actual == evalRow[evalFilters[1].field]
           expected ==
             /\ actual # <<>>
             /\ includes(toLowerCase(actual),
                         toLowerCase(String(evalFilters[1].value)))
       IN /\ evalOut.strict = Returned(expected)
          /\ evalOut.mcp = Returned(expected)

\* C17: a row whose value for a column is the empty string matches no gt
\* or lt condition with a numeric value on that column, in both variants of
\* applyFilters.
C17_EmptyValueFailsNumericComparison ==
  (/\ evalPc = "done"
   /\ Len(evalFilters) = 1
   /\ evalFilters[1].op \in {"gt", "lt"}
   /\ NumericLooking(evalFilters[1].value)
   /\ evalFilters[1].field \in DOMAIN evalRow
   /\ evalRow[evalFilters[1].field] = <<>>)
    => /\ evalOut.strict = Returned(FALSE)
       /\ evalOut.mcp = Returned(FALSE)

\* the order the specification gives two sort keys: numeric when both
\* parse as numbers, lexicographic otherwise
KeyBefore(a, b) ==
  IF NumericLooking(Str(a)) /\ NumericLooking(Str(b))
  THEN Number(Str(a)).n < Number(Str(b)).n
  ELSE StrLt(a, b)

\* C18: after a sort, for positions i < j the key at j does not come
\* before the key at i (ascending), or the key at i before the key at j
\* (dir = "desc"), under the numeric-else-lexicographic comparison.
C18_SortedByField ==
  sortPc = "done"
    => \A i, j \in DOMAIN sortOut :
         i < j =>
           LET ki == sortOut[i][sortBy.field]
               kj == sortOut[j][sortBy.field]
           IN IF sortBy.dir = "desc" THEN ~KeyBefore(ki, kj)
              ELSE ~KeyBefore(kj, ki)

\* the rows of a sequence whose sort key is k, in the sequence's order
WithKey(items, field, k) == SelectSeq(items, LAMBDA r : r[field] = k)

\* C19: the sorted sequence has the rows of the sequence it was made from,
\* each as many times, and rows with the same sort key are in the order
\* they had before the sort.
C19_SortStablePermutation ==
  sortPc = "done"
    => /\ Len(sortOut) = Len(sortIn)
       /\ \A r \in SortRows :
            Cardinality({i \in DOMAIN sortOut : sortOut[i] = r})
              = Cardinality({i \in DOMAIN sortIn : sortIn[i] = r})
       /\ \A r \in SortRows :
            WithKey(sortOut, sortBy.field, r[sortBy.field])
              = WithKey(sortIn, sortBy.field, r[sortBy.field])

\* the store's rows that pass the route's filter, normalized, in the
\* store's order
FilteredNormalized(route, store, filters) ==
  LET kept == SelectSeq(store,
                LAMBDA row : RouteFilter(route, row, filters).ret)
  IN [i \in DOMAIN kept |-> fillMissingFields(kept[i])]

\* C20: with limit and offset given, the results are the elements at
\* positions [offset, offset + limit) of the filtered, normalized sequence,
\* taken in the store's order when no sort is requested and in the sorted
\* order otherwise.
C20_ResultsAreTheSlice ==
  (/\ resp.op = "search"
   /\ resp.outcome = "ok"
   /\ resp.req.limit.t = "number"
   /\ resp.req.offset.t = "number")
    => LET full == IF SortRequested(resp.route, resp.req) THEN resp.matched
                   ELSE FilteredNormalized(resp.route, companies,
                                           resp.req.filters)
           from == resp.req.offset.n
           to == Min(resp.req.offset.n + resp.req.limit.n, Len(full))
       IN resp.results = SubSeq(full, from + 1, to)

\* C21: in the /mcp search_companies handlers, which document a maximum
\* page size of 50, no page holds more than 50 records, whatever limit and
\* offset are.
C21_PageAtMostFifty ==
  (pagePc \in {"paging", "done"} /\ pageRoute.cap # "none")
    => Len(pageOut) <= 50

\* the page size is one the route allows: at least 1, at most 50 where the
\* route has a maximum
AllowedPageSize(route, k) == k >= 1 /\ (route.cap # "none" => k <= 50)

\* C28: a client that asks for the pages at offsets 0, k, 2k, ... with an
\* allowed page size k has received, page after page, the records before
\* its next offset, and when it stops the whole matched sequence, each
\* record once and in order.
C28_PagesPartitionTheResult ==
  (/\ pagePc \in {"paging", "done"}
   /\ pageFirst.offset.n = 0
   /\ AllowedPageSize(pageRoute, pageFirst.limit.n))
    => /\ pagePc = "paging"
            => pageSeen = SubSeq(pageFull, 1, pageReq.offset.n)
       /\ pagePc = "done" => pageSeen = pageFull

\* C28's case: three pages or more were read, the last one shorter than
\* the others, on a route with a maximum
C28_Witness ==
  /\ pagePc = "done"
  /\ pageFirst.offset.n = 0
  /\ pageRoute.cap # "none"
  /\ pageFirst.limit.n >= 2
  /\ pageReq.offset.n >= 2 * pageFirst.limit.n
  /\ Len(pageOut) >= 1
  /\ Len(pageOut) < pageFirst.limit.n
  /\ pageSeen = pageFull

\* C22: no search request ends in an exception: none is answered with an
\* error raised while handling it, nor with HTTP 500.
C22_SearchNeverThrows ==
  resp.op = "search" => resp.outcome # "error" /\ resp.status # 500

\* a condition that compares a column with the sentinel "no_data"
ComparesWithNoData(c) ==
  /\ c.op \in {"eq", "contains"}
  /\ c.value.t = "string"
  /\ c.value.s = NoData

\* C23: a search whose filters compare a column with "no_data" matches no
\* row whose raw value for that column is empty: the total is at most the
\* number of rows with a value there, and no result has "no_data" there
\* unless the route returns rows as they are.
C23_FilteringSeesRawValues ==
  (/\ resp.op = "search"
   /\ resp.outcome = "ok"
   /\ resp.req.filters # <<>>
   /\ \A i \in DOMAIN resp.req.filters :
        ComparesWithNoData(resp.req.filters[i]))
    => LET field == resp.req.filters[1].field
       IN /\ resp.total
               <= Cardinality({i \in DOMAIN companies :
                                 companies[i][field] # <<>>})
          /\ \A i \in DOMAIN resp.matched :
               \E j \in DOMAIN companies :
                 /\ companies[j][field] # <<>>
                 /\ resp.matched[i] \in {companies[j],
                                          fillMissingFields(companies[j])}

\* C23's case: the store holds a row with an empty revenue, and a search
\* comparing the revenue with "no_data" matched nothing
C23_Witness ==
  /\ resp.op = "search"
  /\ resp.outcome = "ok"
  /\ resp.req.filters # <<>>
  /\ ComparesWithNoData(resp.req.filters[1])
  /\ \E j \in DOMAIN companies :
       companies[j][resp.req.filters[1].field] = <<>>
  /\ resp.total = 0

\* a gt or lt condition on a column of the row, one side of which Number()
\* turns into NaN
NonNumericComparison(row, c) ==
  /\ c.t = "object"
  /\ c.op \in {"gt", "lt"}
  /\ hasOwnProperty(row, c.field)
  /\ Number(Get(row, c.field)).nan \/ Number(c.value).nan

\* C24: in applyFilters of the /mcp server of part_002 a gt or lt condition
\* with a non-numeric side is ignored: the result is the result of the
\* filters without that condition, and alone it accepts the row.
C24_NonNumericComparisonIgnored ==
  evalPc = "done"
    => \A i \in DOMAIN evalFilters :
         NonNumericComparison(evalRow, evalFilters[i])
           => /\ evalOut.mcp
                   = applyFiltersMcp(evalRow, RemoveAt(evalFilters, i))
              /\ Len(evalFilters) = 1 => evalOut.mcp = Returned(TRUE)

\* C24's case: a row accepted through a non-numeric gt/lt condition that the
\* evaluator of src/index.js rejects it for
C24_Witness ==
  /\ evalPc = "done"
  /\ \E i \in DOMAIN evalFilters :
       NonNumericComparison(evalRow, evalFilters[i])
  /\ evalOut.mcp = Returned(TRUE)
  /\ evalOut.strict = Returned(FALSE)

\* the list F in the opposite order
Reverse(F) == [i \in 1..Len(F) |-> F[Len(F) + 1 - i]]

\* C26: the result of applyFilters depends neither on the order of the
\* conditions nor on a condition being repeated: the list reversed, and the
\* list followed by itself, give the same result in both variants.
C26_OrderAndDuplicationIndependent ==
  evalPc = "done"
    => /\ applyFilters(evalRow, Reverse(evalFilters)) = evalOut.strict
       /\ applyFiltersMcp(evalRow, Reverse(evalFilters)) = evalOut.mcp
       /\ applyFilters(evalRow, evalFilters \o evalFilters) = evalOut.strict
       /\ applyFiltersMcp(evalRow, evalFilters \o evalFilters) = evalOut.mcp

\* the same for the variant of part_002 alone
C26_McpOrderIndependent ==
  evalPc = "done"
    => /\ applyFiltersMcp(evalRow, Reverse(evalFilters)) = evalOut.mcp
       /\ applyFiltersMcp(evalRow, evalFilters \o evalFilters) = evalOut.mcp

\* the same for lists of which no condition throws on its own
C26_StrictOrderIndependentUnlessThrown ==
  (evalPc = "done"
   /\ \A i \in DOMAIN evalFilters :
        applyFilters(evalRow, <<evalFilters[i]>>) # Thrown)
    => /\ applyFilters(evalRow, Reverse(evalFilters)) = evalOut.strict
       /\ applyFilters(evalRow, evalFilters \o evalFilters) = evalOut.strict

\* C27: a row that matches a filter list matches the list without any one of
\* its conditions, in both variants of applyFilters, and every row matches
\* the empty list: adding a condition never adds a row to the result.
C27_AddingAConditionNeverEnlarges ==
  evalPc = "done"
    => /\ evalOut.strict = Returned(TRUE)
            => \A i \in DOMAIN evalFilters :
                 applyFilters(evalRow, RemoveAt(evalFilters, i))
                   = Returned(TRUE)
       /\ evalOut.mcp = Returned(TRUE)
            => \A i \in DOMAIN evalFilters :
                 applyFiltersMcp(evalRow, RemoveAt(evalFilters, i))
                   = Returned(TRUE)
       /\ evalFilters = <<>>
            => evalOut.strict = Returned(TRUE) /\ evalOut.mcp = Returned(TRUE)

\* C27's case: a row rejected by two conditions that matches the first of
\* them alone
C27_Witness ==
  /\ evalPc = "done"
  /\ Len(evalFilters) = 2
  /\ evalOut.strict = Returned(FALSE)
  /\ evalOut.mcp = Returned(FALSE)
  /\ applyFilters(evalRow, RemoveAt(evalFilters, 2)) = Returned(TRUE)
  /\ applyFiltersMcp(evalRow, RemoveAt(evalFilters, 2)) = Returned(TRUE)

\* the consequence for a search: its total is at most the size of the
\* store, and equal to it without filters
C27_TotalAtMostStoreSize ==
  (resp.op = "search" /\ resp.outcome = "ok")
    => /\ resp.total <= Len(companies)
       /\ resp.req.filters = <<>> => resp.total = Len(companies)

\* whether some row of the store has the id
SomeRowHasId(store, id) == FindById(store, id).ret # Undefined

\* C29: in the lookups that read both id and name, a request that carries
\* an id is answered from the id alone: it finds a record iff some row has
\* that id, whatever the name is, and the name raises no error.
C29_IdTakesPrecedence ==
  (/\ resp.op = "lookup"
   /\ resp.route.byId
   /\ resp.req.id.t # "undefined")
    => /\ resp.outcome = "found" <=> SomeRowHasId(companies, resp.req.id)
       /\ resp.outcome # "error"

\* the same for the ids that are truthy
C29_TruthyIdTakesPrecedence ==
  (/\ resp.op = "lookup"
   /\ resp.route.byId
   /\ Truthy(resp.req.id))
    => /\ resp.outcome = "found" <=> SomeRowHasId(companies, resp.req.id)
       /\ resp.outcome # "error"

\* C30: a lookup by a name that is empty or only whitespace returns no
\* record: it is answered not-found or missing-name, in every lookup route.
C30_BlankNameFindsNothing ==
  (/\ resp.op = "lookup"
   /\ ~(resp.route.byId /\ Truthy(resp.req.id))
   /\ resp.req.name.t = "string"
   /\ trim(resp.req.name.s) = <<>>)
    => resp.outcome \in {"not_found", "missing_name"}

\* the same for the empty name and the routes that test the name first
C30_EmptyNameFindsNothingWhereTested ==
  (/\ resp.op = "lookup"
   /\ ~(resp.route.byId /\ Truthy(resp.req.id))
   /\ resp.req.name = Str(<<>>)
   /\ resp.route.guard \in {"elseif", "required", "target"})
    => resp.outcome \in {"not_found", "missing_name"}

\* the same for every blank name in the lookup of the /mcp server of
\* part_002, which tests the name after trimming it
C30_BlankNameFindsNothingInPart2Mcp ==
  (/\ resp.op = "lookup"
   /\ resp.route.guard = "target"
   /\ resp.req.name.t = "string"
   /\ trim(resp.req.name.s) = <<>>)
    => resp.outcome = "missing_name"

\* C25: every request received by a listening server is answered exactly
\* once: a reply is eventually sent for it, and never a second one.  This
\* includes a tools/call naming an unknown tool, an unknown method, and a
\* handler that throws.
C25_ExactlyOneReply ==
  /\ [](Len(sent) <= 1)
  /\ (pending # NoRequest) ~> (Len(sent) = 1)

\* C25's case: the /mcp server of part_001 has answered a tools/call that
\* names an unknown tool
C25_Witness ==
  /\ variant = "part1_mcp"
  /\ pending # NoRequest
  /\ pending.op = "rpc"
  /\ pending.rq.method = "tools/call"
  /\ pending.rq.params.t = "object"
  /\ pending.pc = "returned"
  /\ Len(sent) = 1
  /\ sent[1].code = -32601

\* a search whose handler threw has been answered by Express
C25_WitnessRaised ==
  /\ pending # NoRequest
  /\ pending.op = "search"
  /\ pending.pc = "returned"
  /\ pending.rq.route.onThrow = "express"
  /\ Len(sent) = 1
  /\ sent[1].status = 500

=============================================================================
